---- MODULE Spec2Model ----
(***************************************************************************)
(* The pluggable goroutine scheduler: the Scheduler interface, the default *)
(* policy schedulerImpl (NextTask, QueueTask, StealWork, GetFromLocalQueue,*)
(* GetFromGlobalQueue, CheckGlobalQueue) and the three experimental        *)
(* policies that embed it.                                                 *)
(*                                                                         *)
(* The run-queue primitives the default policy delegates to (runqput,      *)
(* runqget, runqputbatch, globrunqput, globrunqgetbatch, stealWork) and    *)
(* the dispatch loop around NextTask (execute, park) live in proc.go,      *)
(* which is not among the source files; they are modelled from the         *)
(* specification's contracts (sections 4.1 - 4.4).                         *)
(***************************************************************************)
EXTENDS Integers, Sequences, FiniteSets, TLC

(* ------------------------------ bounds --------------------------------- *)
\* Processors (= workers: the binding of a worker to a processor is exclusive).
NProcs == 2
\* User tasks.
NTasks == 7
\* Capacity of a local ring (len(pp.runq)).
RunqLen == 4
\* Threads that call QueueTask.
NCallers == 2
\* User tasks that are not Dead at the start of the concurrent specification.
LiveConc == 2
\* Dispatch rounds of a processor in the concurrent specification.
RoundsConc == 1
\* QueueTask calls before the NextTask call in a run of the sequential specification.
MaxQueued == 1
\* User tasks that are not Dead at the start of the sequential specification.
LiveSeq == 5
\* User tasks that are not Dead in the fairness specification.
LiveFair == 2
\* User tasks that are not Dead in the liveness specification.
LiveLive == 2
\* Dispatch rounds of the processor in the fairness specification.
RoundsFair == 62
\* Calls of QueueTask in a run that follows the order of the global queue.
MaxDirect == 2
\* Tasks in the global queue at the start of a run of concurrent refills.
MaxGlobal == 3

(* ------------------------- program constants --------------------------- *)
DefaultModulus == 61
FairnessModulus == 31
AffinityModulus == 127
StealingModulus == 101

Procs == 1..NProcs
Callers == 1..NCallers
UserTasks == 1..NTasks
\* The two injected system tasks: the trace reader and a GC worker.
TraceG == NTasks + 1
GcG == NTasks + 2
Special == {TraceG, GcG}
Tasks == UserTasks \cup Special
\* nil
NoG == 0
NoP == 0

Policies == {"Default", "FavorFairness", "FavorAffinity", "FavorStealing"}
NoSched == "none"
NoChk == [pp |-> NoP, s |-> NoSched, res |-> FALSE]
NoSet == [s |-> NoSched, restore |-> FALSE]
NoSw == [cur |-> NoP, pp |-> NoP, gp |-> NoG]

VARIABLES
  gstatus,           \* task -> "waiting" | "runnable" | "running" | "dead"
  runq,              \* processor -> its ring, oldest entry first
  runnext,           \* processor -> its run-next slot (NoG when empty)
  globq,             \* sched.runq, head first
  schedtick,         \* processor -> pp.schedtick
  defaultScheduler,  \* the process-wide policy
  started,           \* a worker has begun dispatching
  inj,               \* injected tasks the external probes would hand out now
  m,                 \* worker -> its position in the dispatch loop and locals
  c,                 \* caller -> its position in QueueTask and locals
  nret,              \* history: task -> returns in its current Runnable period
  pre,               \* history: the queues as the call in progress found them
  gap,               \* history: processor -> rounds since it consulted globq
  skipped,           \* history: processor -> an injected task pre-empted the
                     \*          fairness check in the current gap
  ncalls,            \* history: calls of QueueTask so far
  chk,               \* the last direct call of CheckGlobalQueue and its result
  saved,             \* the policy the configuring code read and kept
  lastset,           \* history: the last argument of setScheduler
  direct,            \* history: the tasks QueueTask put straight in the global
                     \*          queue, in the order of the calls
  popped,            \* history: the tasks that left the global queue
  sw                 \* history: the last direct call of StealWork: the
                     \*          processor of the calling worker, the argument
                     \*          pp and the task returned

\* What only the specifications of the policy calls and of the global queue
\* order follow.
aux == <<chk, saved, lastset, direct, popped, sw>>

vars == <<gstatus, runq, runnext, globq, schedtick, defaultScheduler, started, inj, m, c,
          nret, pre, gap, skipped, ncalls, chk, saved, lastset, direct, popped, sw>>

Min(a, b) == IF a < b THEN a ELSE b

(* ---------------------- run-queue primitives --------------------------- *)
\* runqput(pp, gp, false): append to the ring; a full ring moves its oldest
\* half plus gp to the global queue as one batch.
runqput(rq, gq, gp) ==
  IF Len(rq) < RunqLen
  THEN [rq |-> Append(rq, gp), gq |-> gq]
  ELSE LET n == Len(rq) \div 2
       IN [rq |-> SubSeq(rq, n + 1, Len(rq)),
           gq |-> gq \o SubSeq(rq, 1, n) \o <<gp>>]

\* runqget(pp): the run-next slot if occupied (the task inherits the time
\* slice), else the newest ring entry, else nothing.
runqget(rq, rn) ==
  IF rn # NoG
  THEN [gp |-> rn, inherit |-> TRUE, rq |-> rq, rn |-> NoG]
  ELSE IF rq # <<>>
  THEN [gp |-> rq[Len(rq)], inherit |-> FALSE, rq |-> SubSeq(rq, 1, Len(rq) - 1), rn |-> rn]
  ELSE [gp |-> NoG, inherit |-> FALSE, rq |-> rq, rn |-> rn]

\* runqputbatch(pp, &q): as many of q as fit go onto the ring, the rest stay in q.
runqputbatch(rq, q) ==
  LET fit == Min(Len(q), RunqLen - Len(rq))
  IN [rq |-> rq \o SubSeq(q, 1, fit), q |-> SubSeq(q, fit + 1, Len(q))]

\* globrunqput(gp): append at the tail.
globrunqput(gq, gp) == Append(gq, gp)

\* globrunqgetbatch(n): up to n tasks from the head; the first is the one to
\* run, the others are the refill batch.
globrunqgetbatch(gq, n) ==
  IF gq = <<>> \/ n < 1
  THEN [gp |-> NoG, q |-> <<>>, gq |-> gq]
  ELSE LET k == Min(n, Len(gq))
       IN [gp |-> gq[1], q |-> SubSeq(gq, 2, k), gq |-> SubSeq(gq, k + 1, Len(gq))]

\* stealHalf(victim): with k >= 2 ring entries the oldest ceil(k/2) leave the
\* victim; the newest of them is the task to run, the others are the batch.
\* The victim's run-next slot is not read.
stealHalf(rq) ==
  LET k == Len(rq)
      n == (k + 1) \div 2
  IN IF k < 2
     THEN [gp |-> NoG, batch |-> <<>>, rq |-> rq]
     ELSE [gp |-> rq[n], batch |-> SubSeq(rq, 1, n - 1), rq |-> SubSeq(rq, n + 1, k)]

sched_runq_empty(gq) == gq = <<>>

(* ------------------------------ policies ------------------------------- *)
Modulus(pol) ==
  CASE pol = "Default" -> DefaultModulus
    [] pol = "FavorFairness" -> FairnessModulus
    [] pol = "FavorAffinity" -> AffinityModulus
    [] pol = "FavorStealing" -> StealingModulus

\* Fault: the fairness check looks at the global queue alone.
CheckGlobalQueueAnyTick(pol, tick, gq) == ~sched_runq_empty(gq)

\* s.CheckGlobalQueue(pp) called through the Scheduler interface: the method
\* of the policy's own type.
CheckGlobalQueue(pol, tick, gq) ==
  tick % Modulus(pol) = 0 /\ ~sched_runq_empty(gq)

\* Fault: NextTask decides its fairness check with a larger modulus.
NextTaskCheckGlobalQueueLate(pol, tick, gq) ==
  CheckGlobalQueue("FavorAffinity", tick, gq)

\* The call s.CheckGlobalQueue(pp) inside schedulerImpl.NextTask.  No
\* experimental policy defines NextTask: each gets it by embedding
\* schedulerImpl, so the receiver s is the embedded *schedulerImpl and the
\* call is bound to schedulerImpl.CheckGlobalQueue whatever the policy is.
NextTaskCheckGlobalQueue(pol, tick, gq) ==
  CheckGlobalQueue("Default", tick, gq)

\* Fault: the local pop looks at the ring before the run-next slot.
GetFromLocalQueueRingFirst(rq, rn) ==
  IF rq # <<>>
  THEN [runqget(rq, NoG) EXCEPT !.rn = rn]
  ELSE runqget(rq, rn)

\* Fault: the local pop hands out the task and leaves it in the queue.
GetFromLocalQueueKeep(rq, rn) ==
  [runqget(rq, rn) EXCEPT !.rq = rq, !.rn = rn]

\* s.GetFromLocalQueue(pp): every policy ends in runqget(pp).
GetFromLocalQueue(rq, rn) == runqget(rq, rn)

\* len(pp.runq) / 2, the batch GetFromGlobalQueue asks for.
GlobalBatch == RunqLen \div 2

(* ------------------------------- workers ------------------------------- *)
MIdle ==
  [pc |-> "idle", gp |-> NoG, q |-> <<>>, fair |-> FALSE, vict |-> {},
   inherit |-> FALSE, wake |-> FALSE, src |-> "none", trail |-> <<>>,
   newWork |-> FALSE]

\* NextTask returns (gp, inheritTime, tryWakeP).
Return(w, gp, inheritTime, tryWakeP, src, trail) ==
  [m EXCEPT ![w] = [MIdle EXCEPT !.pc = "got", !.gp = gp, !.inherit = inheritTime,
                                  !.wake = tryWakeP, !.src = src, !.trail = trail]]

Goto(w, pc, fair, trail) ==
  [m EXCEPT ![w] = [MIdle EXCEPT !.pc = pc, !.fair = fair, !.trail = trail,
                                  !.vict = IF pc = "steal" THEN Procs \ {w} ELSE {}]]

\* Fault: an empty global fallback ends the call without work stealing.
AfterGlobalNilStop(w) ==
  IF m[w].fair
  THEN Goto(w, "local", FALSE, m[w].trail)
  ELSE [m EXCEPT ![w] = [MIdle EXCEPT !.pc = "nil", !.trail = m[w].trail]]

\* GetFromGlobalQueue returned nil: the fairness check falls through to the
\* local queue, the fallback to work stealing.
AfterGlobalNil(w) ==
  IF m[w].fair
  THEN Goto(w, "local", FALSE, m[w].trail)
  ELSE Goto(w, "steal", FALSE, Append(m[w].trail, "steal"))

\* Fault: the GC worker is asked before the trace reader.
NTStartGcFirst(w) ==
  /\ m[w].pc = "idle"
  /\ started' = TRUE
  /\ IF GcG \in inj
     THEN /\ m' = Return(w, GcG, FALSE, TRUE, "gc", <<"gc">>)
          /\ gstatus' = [gstatus EXCEPT ![GcG] = "runnable"]
          /\ inj' = inj \ {GcG}
     ELSE IF TraceG \in inj
     THEN /\ m' = Return(w, TraceG, FALSE, TRUE, "trace", <<"gc", "trace">>)
          /\ gstatus' = [gstatus EXCEPT ![TraceG] = "runnable"]
          /\ inj' = inj \ {TraceG}
     ELSE IF NextTaskCheckGlobalQueue(defaultScheduler, schedtick[w], globq)
     THEN /\ m' = Goto(w, "gqhint", TRUE, <<"gc", "trace", "globalFair">>)
          /\ UNCHANGED <<gstatus, inj>>
     ELSE /\ m' = Goto(w, "local", FALSE, <<"gc", "trace">>)
          /\ UNCHANGED <<gstatus, inj>>
  /\ UNCHANGED <<runq, runnext, globq, schedtick, defaultScheduler, c>>

\* Fault: a GC worker is returned without the wake-another flag.
NTStartNoWake(w) ==
  /\ m[w].pc = "idle"
  /\ started' = TRUE
  /\ IF TraceG \in inj
     THEN /\ m' = Return(w, TraceG, FALSE, TRUE, "trace", <<"trace">>)
          /\ gstatus' = [gstatus EXCEPT ![TraceG] = "runnable"]
          /\ inj' = inj \ {TraceG}
     ELSE IF GcG \in inj
     THEN /\ m' = Return(w, GcG, FALSE, FALSE, "gc", <<"trace", "gc">>)
          /\ gstatus' = [gstatus EXCEPT ![GcG] = "runnable"]
          /\ inj' = inj \ {GcG}
     ELSE IF NextTaskCheckGlobalQueue(defaultScheduler, schedtick[w], globq)
     THEN /\ m' = Goto(w, "gqhint", TRUE, <<"trace", "gc", "globalFair">>)
          /\ UNCHANGED <<gstatus, inj>>
     ELSE /\ m' = Goto(w, "local", FALSE, <<"trace", "gc">>)
          /\ UNCHANGED <<gstatus, inj>>
  /\ UNCHANGED <<runq, runnext, globq, schedtick, defaultScheduler, c>>

\* NextTask, up to its first access to the run queues: the trace reader, the
\* GC worker, then the fairness check.
NTStart(w) ==
  /\ m[w].pc = "idle"
  /\ started' = TRUE
  /\ IF TraceG \in inj
     THEN /\ m' = Return(w, TraceG, FALSE, TRUE, "trace", <<"trace">>)
          /\ gstatus' = [gstatus EXCEPT ![TraceG] = "runnable"]
          /\ inj' = inj \ {TraceG}
     ELSE IF GcG \in inj
     THEN /\ m' = Return(w, GcG, FALSE, TRUE, "gc", <<"trace", "gc">>)
          /\ gstatus' = [gstatus EXCEPT ![GcG] = "runnable"]
          /\ inj' = inj \ {GcG}
     ELSE IF NextTaskCheckGlobalQueue(defaultScheduler, schedtick[w], globq)
     THEN /\ m' = Goto(w, "gqhint", TRUE, <<"trace", "gc", "globalFair">>)
          /\ UNCHANGED <<gstatus, inj>>
     ELSE /\ m' = Goto(w, "local", FALSE, <<"trace", "gc">>)
          /\ UNCHANGED <<gstatus, inj>>
  /\ UNCHANGED <<runq, runnext, globq, schedtick, defaultScheduler, c>>

\* GetFromGlobalQueue: the lock-free emptiness hint.
GqHint(w) ==
  /\ m[w].pc = "gqhint"
  /\ m' = IF sched_runq_empty(globq)
          THEN AfterGlobalNil(w)
          ELSE [m EXCEPT ![w].pc = "gqlock"]
  /\ UNCHANGED <<gstatus, runq, runnext, globq, schedtick, defaultScheduler, started, inj, c>>

GlobalSrc(w) == IF m[w].fair THEN "globalFair" ELSE "global"

\* Fault: GetFromGlobalQueue takes the newest task of the global queue.
GqLockNewest(w) ==
  /\ m[w].pc = "gqlock"
  /\ IF globq = <<>>
     THEN m' = AfterGlobalNil(w) /\ UNCHANGED globq
     ELSE /\ globq' = SubSeq(globq, 1, Len(globq) - 1)
          /\ m' = Return(w, globq[Len(globq)], FALSE, FALSE, GlobalSrc(w), m[w].trail)
  /\ UNCHANGED <<gstatus, runq, runnext, schedtick, defaultScheduler, started, inj, c>>

\* Fault: GetFromGlobalQueue takes the whole global queue.
GqLockAll(w) ==
  /\ m[w].pc = "gqlock"
  /\ LET r == globrunqgetbatch(globq, Len(globq))
     IN /\ globq' = r.gq
        /\ m' = IF r.gp = NoG
                THEN AfterGlobalNil(w)
                ELSE IF r.q = <<>>
                THEN Return(w, r.gp, FALSE, FALSE, GlobalSrc(w), m[w].trail)
                ELSE [m EXCEPT ![w].pc = "gqput", ![w].gp = r.gp, ![w].q = r.q]
  /\ UNCHANGED <<gstatus, runq, runnext, schedtick, defaultScheduler, started, inj, c>>

\* Fault: a task taken alone from the global queue inherits the time slice.
GqLockInherit(w) ==
  /\ m[w].pc = "gqlock"
  /\ LET r == globrunqgetbatch(globq, GlobalBatch)
     IN /\ globq' = r.gq
        /\ m' = IF r.gp = NoG
                THEN AfterGlobalNil(w)
                ELSE IF r.q = <<>>
                THEN Return(w, r.gp, TRUE, FALSE, GlobalSrc(w), m[w].trail)
                ELSE [m EXCEPT ![w].pc = "gqput", ![w].gp = r.gp, ![w].q = r.q]
  /\ UNCHANGED <<gstatus, runq, runnext, schedtick, defaultScheduler, started, inj, c>>

\* GetFromGlobalQueue: lock, globrunqgetbatch, unlock.
GqLock(w) ==
  /\ m[w].pc = "gqlock"
  /\ LET r == globrunqgetbatch(globq, GlobalBatch)
     IN /\ globq' = r.gq
        /\ m' = IF r.gp = NoG
                THEN AfterGlobalNil(w)
                ELSE IF r.q = <<>>
                THEN Return(w, r.gp, FALSE, FALSE, GlobalSrc(w), m[w].trail)
                ELSE [m EXCEPT ![w].pc = "gqput", ![w].gp = r.gp, ![w].q = r.q]
  /\ UNCHANGED <<gstatus, runq, runnext, schedtick, defaultScheduler, started, inj, c>>

\* Fault: the batch taken from the global queue is not placed anywhere.
GqPutDrop(w) ==
  /\ m[w].pc = "gqput"
  /\ m' = Return(w, m[w].gp, FALSE, FALSE, GlobalSrc(w), m[w].trail)
  /\ UNCHANGED <<gstatus, runq, runnext, globq, schedtick, defaultScheduler, started, inj, c>>

\* Fault: what did not fit on the ring is not put back in the global queue.
GqPutNoRepush(w) ==
  /\ m[w].pc = "gqput"
  /\ runq' = [runq EXCEPT ![w] = runqputbatch(runq[w], m[w].q).rq]
  /\ m' = Return(w, m[w].gp, FALSE, FALSE, GlobalSrc(w), m[w].trail)
  /\ UNCHANGED <<gstatus, runnext, globq, schedtick, defaultScheduler, started, inj, c>>

\* GetFromGlobalQueue: runqputbatch, and what did not fit goes back to the
\* global queue under the lock.
GqPut(w) ==
  /\ m[w].pc = "gqput"
  /\ LET r == runqputbatch(runq[w], m[w].q)
     IN /\ runq' = [runq EXCEPT ![w] = r.rq]
        /\ globq' = globq \o r.q
  /\ m' = Return(w, m[w].gp, FALSE, FALSE, GlobalSrc(w), m[w].trail)
  /\ UNCHANGED <<gstatus, runnext, schedtick, defaultScheduler, started, inj, c>>

\* Fault: an empty local queue sends NextTask straight to work stealing.
LocalNoFallback(w) ==
  /\ m[w].pc = "local"
  /\ LET r == GetFromLocalQueue(runq[w], runnext[w])
         trail == Append(m[w].trail, "local")
     IN /\ runq' = [runq EXCEPT ![w] = r.rq]
        /\ runnext' = [runnext EXCEPT ![w] = r.rn]
        /\ m' = IF r.gp # NoG
                THEN Return(w, r.gp, r.inherit, FALSE, "local", trail)
                ELSE Goto(w, "steal", FALSE, Append(trail, "steal"))
  /\ UNCHANGED <<gstatus, globq, schedtick, defaultScheduler, started, inj, c>>

\* NextTask: the local queue, and on nil the unconditional global fallback.
Local(w) ==
  /\ m[w].pc = "local"
  /\ LET r == GetFromLocalQueue(runq[w], runnext[w])
         trail == Append(m[w].trail, "local")
     IN /\ runq' = [runq EXCEPT ![w] = r.rq]
        /\ runnext' = [runnext EXCEPT ![w] = r.rn]
        /\ m' = IF r.gp # NoG
                THEN Return(w, r.gp, r.inherit, FALSE, "local", trail)
                ELSE Goto(w, "gqhint", FALSE, Append(trail, "global"))
  /\ UNCHANGED <<gstatus, globq, schedtick, defaultScheduler, started, inj, c>>

RECURSIVE PutAll(_, _, _)
PutAll(rq, gq, batch) ==
  IF batch = <<>>
  THEN [rq |-> rq, gq |-> gq]
  ELSE LET r == runqput(rq, gq, Head(batch))
       IN PutAll(r.rq, r.gq, Tail(batch))

\* Fault: a steal leaves on the victim's ring what it took.
StealFromCopy(cur, pp, v) ==
  LET s == stealHalf(runq[v])
      put == PutAll(runq[cur], globq, s.batch)
  IN [gp |-> s.gp, inherit |-> FALSE,
      runq |-> [runq EXCEPT ![cur] = put.rq],
      globq |-> put.gq]

\* Fault: a steal takes the oldest entry of the victim and no more.
StealFromOne(cur, pp, v) ==
  IF Len(runq[v]) < 2
  THEN [gp |-> NoG, inherit |-> FALSE, runq |-> runq, globq |-> globq]
  ELSE [gp |-> Head(runq[v]), inherit |-> FALSE,
        runq |-> [runq EXCEPT ![v] = Tail(@)], globq |-> globq]

\* StealWork(pp, mp, now) == stealWork(now): the thief is the processor the
\* calling worker runs on (cur), not the argument pp.  One victim is tried.
\* A stolen task does not inherit the time slice.
StealFrom(cur, pp, v) ==
  LET s == stealHalf(runq[v])
      put == PutAll(runq[cur], globq, s.batch)
  IN [gp |-> s.gp, inherit |-> FALSE,
      runq |-> [runq EXCEPT ![v] = s.rq, ![cur] = put.rq],
      globq |-> put.gq]

\* Fault: a victim whose ring yields nothing loses its run-next task.
StealTryRunNext(w) ==
  /\ m[w].pc = "steal"
  /\ \E v \in m[w].vict :
       LET r == StealFrom(w, w, v)
       IN IF r.gp # NoG
          THEN /\ m' = Return(w, r.gp, r.inherit, FALSE, "steal", m[w].trail)
               /\ runq' = r.runq
               /\ globq' = r.globq
               /\ UNCHANGED runnext
          ELSE IF runnext[v] # NoG
          THEN /\ m' = Return(w, runnext[v], FALSE, FALSE, "steal", m[w].trail)
               /\ runnext' = [runnext EXCEPT ![v] = NoG]
               /\ UNCHANGED <<runq, globq>>
          ELSE /\ m' = [m EXCEPT ![w].vict = @ \ {v}]
               /\ UNCHANGED <<runq, globq, runnext>>
  /\ UNCHANGED <<gstatus, schedtick, defaultScheduler, started, inj, c>>

\* Fault: a successful steal counts as a round of the thief.
StealTryTick(w) ==
  /\ m[w].pc = "steal"
  /\ \E v \in m[w].vict :
       LET r == StealFrom(w, w, v)
       IN IF r.gp = NoG
          THEN /\ m' = [m EXCEPT ![w].vict = @ \ {v}]
               /\ UNCHANGED <<runq, globq, schedtick>>
          ELSE /\ m' = Return(w, r.gp, r.inherit, FALSE, "steal", m[w].trail)
               /\ runq' = r.runq
               /\ globq' = r.globq
               /\ schedtick' = [schedtick EXCEPT ![w] = @ + 1]
  /\ UNCHANGED <<gstatus, runnext, defaultScheduler, started, inj, c>>

\* Work stealing tries the other processors in an arbitrary order.
StealTry(w) ==
  /\ m[w].pc = "steal"
  /\ \E v \in m[w].vict :
       LET r == StealFrom(w, w, v)
       IN IF r.gp = NoG
          THEN /\ m' = [m EXCEPT ![w].vict = @ \ {v}]
               /\ UNCHANGED <<runq, globq>>
          ELSE /\ m' = Return(w, r.gp, r.inherit, FALSE, "steal", m[w].trail)
               /\ runq' = r.runq
               /\ globq' = r.globq
  /\ UNCHANGED <<gstatus, runnext, schedtick, defaultScheduler, started, inj, c>>

\* A pass of stealWork that took nothing may still have seen work: a task on
\* another processor that it could not take.
SawWork(w) == \E p \in Procs \ {w} : runq[p] # <<>> \/ runnext[p] # NoG

\* Every victim yielded nothing: stealWork returns no task and its newWork
\* flag, NextTask drops the flag and returns nil.
StealFail(w) ==
  /\ m[w].pc = "steal"
  /\ m[w].vict = {}
  /\ \E nw \in BOOLEAN :
       /\ nw => SawWork(w)
       /\ m' = [m EXCEPT ![w] = [MIdle EXCEPT !.pc = "nil", !.trail = m[w].trail,
                                               !.newWork = nw]]
  /\ UNCHANGED <<gstatus, runq, runnext, globq, schedtick, defaultScheduler, started, inj, c>>

\* StealWork(pp, mp, now) called on its own by the worker of processor w: a
\* whole pass of stealWork(now), which does not read pp.
StealCall(w, pp) ==
  /\ m[w].pc = "idle"
  /\ LET from == {v \in Procs \ {w} : StealFrom(w, pp, v).gp # NoG}
     IN IF from = {}
        THEN /\ \E nw \in BOOLEAN :
                  /\ nw => SawWork(w)
                  /\ m' = [m EXCEPT ![w] = [MIdle EXCEPT !.pc = "nil", !.newWork = nw]]
             /\ sw' = [cur |-> w, pp |-> pp, gp |-> NoG]
             /\ UNCHANGED <<runq, globq>>
        ELSE \E v \in from :
               LET r == StealFrom(w, pp, v)
               IN /\ m' = Return(w, r.gp, r.inherit, FALSE, "steal", <<>>)
                  /\ sw' = [cur |-> w, pp |-> pp, gp |-> r.gp]
                  /\ runq' = r.runq
                  /\ globq' = r.globq
  /\ UNCHANGED <<gstatus, runnext, schedtick, defaultScheduler, started, inj, c>>

\* The dispatch loop parks the worker after a nil NextTask.
Park(w) ==
  /\ m[w].pc = "nil"
  /\ m' = [m EXCEPT ![w] = [MIdle EXCEPT !.pc = "parked"]]
  /\ UNCHANGED <<gstatus, runq, runnext, globq, schedtick, defaultScheduler, started, inj, c>>

\* A timer deadline ends the park.
TimerWake(w) ==
  /\ m[w].pc = "parked"
  /\ m' = [m EXCEPT ![w] = MIdle]
  /\ UNCHANGED <<gstatus, runq, runnext, globq, schedtick, defaultScheduler, started, inj, c>>

\* The dispatch loop runs the task NextTask returned: one scheduling round.
Execute(w) ==
  /\ m[w].pc = "got"
  /\ gstatus' = [gstatus EXCEPT ![m[w].gp] = "running"]
  /\ schedtick' = [schedtick EXCEPT ![w] = @ + 1]
  /\ m' = [m EXCEPT ![w] = [MIdle EXCEPT !.pc = "running", !.gp = m[w].gp]]
  /\ UNCHANGED <<runq, runnext, globq, defaultScheduler, started, inj, c>>

\* The running task blocks.
Block(w) ==
  /\ m[w].pc = "running"
  /\ gstatus' = [gstatus EXCEPT ![m[w].gp] = "waiting"]
  /\ m' = [m EXCEPT ![w] = MIdle]
  /\ UNCHANGED <<runq, runnext, globq, schedtick, defaultScheduler, started, inj, c>>

\* The running task's continuation completes.
Exit(w) ==
  /\ m[w].pc = "running"
  /\ m[w].gp \in UserTasks
  /\ gstatus' = [gstatus EXCEPT ![m[w].gp] = "dead"]
  /\ m' = [m EXCEPT ![w] = MIdle]
  /\ UNCHANGED <<runq, runnext, globq, schedtick, defaultScheduler, started, inj, c>>

\* The trace reader has data to read, or the GC wants its worker to run.
Inject(g) ==
  /\ gstatus[g] = "waiting"
  /\ g \notin inj
  /\ inj' = inj \cup {g}
  /\ UNCHANGED <<gstatus, runq, runnext, globq, schedtick, defaultScheduler, started, m, c>>

\* Fault: only the first policy installed takes effect.
setSchedulerOnce(s) ==
  /\ ~started
  /\ defaultScheduler # s
  /\ defaultScheduler' = IF defaultScheduler = "Default" THEN s ELSE defaultScheduler
  /\ UNCHANGED <<gstatus, runq, runnext, globq, schedtick, started, inj, m, c>>

\* setScheduler(s): defaultScheduler = s.  Its callers keep to its documented
\* use, before any worker dispatches.
setScheduler(s) ==
  /\ ~started
  /\ defaultScheduler # s
  /\ defaultScheduler' = s
  /\ UNCHANGED <<gstatus, runq, runnext, globq, schedtick, started, inj, m, c>>

(* ---------------------------- policy calls ----------------------------- *)
\* getScheduler(): return defaultScheduler.
getScheduler == defaultScheduler

\* getScheduler().CheckGlobalQueue(pp): the method called on the installed
\* policy, outside NextTask.  It reads pp.schedtick and sched.runq.
CheckCall(p) ==
  /\ chk' = [pp |-> p, s |-> getScheduler,
             res |-> CheckGlobalQueue(getScheduler, schedtick[p], globq)]
  /\ UNCHANGED <<gstatus, runq, runnext, globq, schedtick, defaultScheduler, started, inj,
                 m, c>>

\* old := getScheduler()
SaveScheduler ==
  /\ saved' = getScheduler
  /\ UNCHANGED <<gstatus, runq, runnext, globq, schedtick, defaultScheduler, started, inj,
                 m, c>>

(* ------------------------------- callers ------------------------------- *)
CIdle == [pc |-> "idle", gp |-> NoG, pp |-> NoP, next |-> FALSE, local |-> FALSE,
          oldnext |-> NoG]

\* A thread marks a waiting task Runnable and calls QueueTask(gp, pp, next, local).
QtCall(k, gp, pp, next, local) ==
  /\ c[k].pc = "idle"
  /\ gstatus[gp] = "waiting"
  /\ gstatus' = [gstatus EXCEPT ![gp] = "runnable"]
  /\ c' = [c EXCEPT ![k] = [pc |-> "enter", gp |-> gp, pp |-> pp, next |-> next,
                            local |-> local, oldnext |-> NoG]]
  /\ UNCHANGED <<runq, runnext, globq, schedtick, defaultScheduler, started, inj, m>>

\* Fault: a push without next appends to the ring, full or not.
QtEnterGrow(k) ==
  /\ c[k].pc = "enter"
  /\ LET a == c[k]
     IN IF a.local /\ a.pp # NoP
        THEN IF a.next
             THEN /\ c' = [c EXCEPT ![k].pc = "cas", ![k].oldnext = runnext[a.pp]]
                  /\ UNCHANGED <<runq, globq>>
             ELSE /\ runq' = [runq EXCEPT ![a.pp] = Append(@, a.gp)]
                  /\ c' = [c EXCEPT ![k] = CIdle]
                  /\ UNCHANGED globq
        ELSE /\ globq' = globrunqput(globq, a.gp)
             /\ c' = [c EXCEPT ![k] = CIdle]
             /\ UNCHANGED runq
  /\ UNCHANGED <<gstatus, runnext, schedtick, defaultScheduler, started, inj, m>>

\* Fault: QueueTask looks at pp alone, not at local.
QtEnterAnyLocal(k) ==
  /\ c[k].pc = "enter"
  /\ LET a == c[k]
     IN IF a.pp # NoP
        THEN IF a.next
             THEN /\ c' = [c EXCEPT ![k].pc = "cas", ![k].oldnext = runnext[a.pp]]
                  /\ UNCHANGED <<runq, globq>>
             ELSE LET r == runqput(runq[a.pp], globq, a.gp)
                  IN /\ runq' = [runq EXCEPT ![a.pp] = r.rq]
                     /\ globq' = r.gq
                     /\ c' = [c EXCEPT ![k] = CIdle]
        ELSE /\ globq' = globrunqput(globq, a.gp)
             /\ c' = [c EXCEPT ![k] = CIdle]
             /\ UNCHANGED runq
  /\ UNCHANGED <<gstatus, runnext, schedtick, defaultScheduler, started, inj, m>>

\* Fault: a task routed to the global queue is put at its head.
QtEnterFront(k) ==
  /\ c[k].pc = "enter"
  /\ LET a == c[k]
     IN IF a.local /\ a.pp # NoP
        THEN IF a.next
             THEN /\ c' = [c EXCEPT ![k].pc = "cas", ![k].oldnext = runnext[a.pp]]
                  /\ UNCHANGED <<runq, globq>>
             ELSE LET r == runqput(runq[a.pp], globq, a.gp)
                  IN /\ runq' = [runq EXCEPT ![a.pp] = r.rq]
                     /\ globq' = r.gq
                     /\ c' = [c EXCEPT ![k] = CIdle]
        ELSE /\ globq' = <<a.gp>> \o globq
             /\ c' = [c EXCEPT ![k] = CIdle]
             /\ UNCHANGED runq
  /\ UNCHANGED <<gstatus, runnext, schedtick, defaultScheduler, started, inj, m>>

\* QueueTask: its first access to the queues.  local && pp != nil: with next
\* the run-next slot is read, without it the task goes onto the ring.
\* Otherwise the task goes to the global queue under sched.lock.
QtEnter(k) ==
  /\ c[k].pc = "enter"
  /\ LET a == c[k]
     IN IF a.local /\ a.pp # NoP
        THEN IF a.next
             THEN /\ c' = [c EXCEPT ![k].pc = "cas", ![k].oldnext = runnext[a.pp]]
                  /\ UNCHANGED <<runq, globq>>
             ELSE LET r == runqput(runq[a.pp], globq, a.gp)
                  IN /\ runq' = [runq EXCEPT ![a.pp] = r.rq]
                     /\ globq' = r.gq
                     /\ c' = [c EXCEPT ![k] = CIdle]
        ELSE /\ globq' = globrunqput(globq, a.gp)
             /\ c' = [c EXCEPT ![k] = CIdle]
             /\ UNCHANGED runq
  /\ UNCHANGED <<gstatus, runnext, schedtick, defaultScheduler, started, inj, m>>

\* Fault: a successful swap forgets the task it displaced.
QtCasForget(k) ==
  /\ c[k].pc = "cas"
  /\ LET a == c[k]
     IN IF runnext[a.pp] = a.oldnext
        THEN /\ runnext' = [runnext EXCEPT ![a.pp] = a.gp]
             /\ c' = [c EXCEPT ![k] = CIdle]
        ELSE /\ c' = [c EXCEPT ![k].pc = "putgp"]
             /\ UNCHANGED runnext
  /\ UNCHANGED <<gstatus, runq, globq, schedtick, defaultScheduler, started, inj, m>>

\* Fault: the slot is stored to, whatever it holds now.
QtCasStore(k) ==
  /\ c[k].pc = "cas"
  /\ LET a == c[k]
     IN /\ runnext' = [runnext EXCEPT ![a.pp] = a.gp]
        /\ c' = IF a.oldnext # NoG
                THEN [c EXCEPT ![k].pc = "putold"]
                ELSE [c EXCEPT ![k] = CIdle]
  /\ UNCHANGED <<gstatus, runq, globq, schedtick, defaultScheduler, started, inj, m>>

\* QueueTask: pp.runnext.cas(oldnext, gp).
QtCas(k) ==
  /\ c[k].pc = "cas"
  /\ LET a == c[k]
     IN IF runnext[a.pp] = a.oldnext
        THEN /\ runnext' = [runnext EXCEPT ![a.pp] = a.gp]
             /\ c' = IF a.oldnext # NoG
                     THEN [c EXCEPT ![k].pc = "putold"]
                     ELSE [c EXCEPT ![k] = CIdle]
        ELSE /\ c' = [c EXCEPT ![k].pc = "putgp"]
             /\ UNCHANGED runnext
  /\ UNCHANGED <<gstatus, runq, globq, schedtick, defaultScheduler, started, inj, m>>

\* Fault: the task a swap displaced is not pushed back.
QtPutSkip(k) ==
  /\ c[k].pc \in {"putold", "putgp"}
  /\ LET a == c[k]
         r == runqput(runq[a.pp], globq, a.gp)
     IN IF a.pc = "putold"
        THEN UNCHANGED <<runq, globq>>
        ELSE /\ runq' = [runq EXCEPT ![a.pp] = r.rq]
             /\ globq' = r.gq
  /\ c' = [c EXCEPT ![k] = CIdle]
  /\ UNCHANGED <<gstatus, runnext, schedtick, defaultScheduler, started, inj, m>>

\* Fault: after a successful swap the new task is pushed, not the displaced one.
QtPutNew(k) ==
  /\ c[k].pc \in {"putold", "putgp"}
  /\ LET a == c[k]
         r == runqput(runq[a.pp], globq, a.gp)
     IN /\ runq' = [runq EXCEPT ![a.pp] = r.rq]
        /\ globq' = r.gq
  /\ c' = [c EXCEPT ![k] = CIdle]
  /\ UNCHANGED <<gstatus, runnext, schedtick, defaultScheduler, started, inj, m>>

\* QueueTask: runqput(pp, oldnext.ptr(), false) after a successful swap,
\* runqput(pp, gp, false) after a failed one.
QtPut(k) ==
  /\ c[k].pc \in {"putold", "putgp"}
  /\ LET a == c[k]
         g == IF a.pc = "putold" THEN a.oldnext ELSE a.gp
         r == runqput(runq[a.pp], globq, g)
     IN /\ runq' = [runq EXCEPT ![a.pp] = r.rq]
        /\ globq' = r.gq
  /\ c' = [c EXCEPT ![k] = CIdle]
  /\ UNCHANGED <<gstatus, runnext, schedtick, defaultScheduler, started, inj, m>>

(* ------------------------------ histories ------------------------------ *)
InNextTask(w) == m[w].pc \in {"gqhint", "gqlock", "gqput", "local", "steal", "got", "nil"}
InQueueTask(k) == c[k].pc # "idle"

NoPre == [runq |-> <<>>, runnext |-> <<>>, globq |-> <<>>, inj |-> {}]
Snapshot == [runq |-> runq, runnext |-> runnext, globq |-> globq, inj |-> inj]

\* nret: reset when the task is admitted, counted when a NextTask returns it.
TrackReturns ==
  nret' = [t \in Tasks |->
             LET base == IF t \in UserTasks /\ gstatus[t] = "waiting" /\ gstatus'[t] = "runnable"
                         THEN 0
                         ELSE IF t \in Special /\ gstatus[t] = "waiting" /\ gstatus'[t] = "runnable"
                         THEN 0
                         ELSE nret[t]
             IN IF \E w \in Procs : m[w].pc # "got" /\ m'[w].pc = "got" /\ m'[w].gp = t
                THEN Min(base + 1, 2)
                ELSE base]

\* pre: taken when a call starts, dropped when no call is in progress.
TrackPre ==
  pre' = IF \/ \E w \in Procs : m[w].pc = "idle" /\ m'[w].pc # "idle"
            \/ \E k \in Callers : c[k].pc = "idle" /\ c'[k].pc # "idle"
         THEN Snapshot
         ELSE IF /\ \A w \in Procs : m'[w].pc \in {"idle", "running", "parked"}
                 /\ \A k \in Callers : c'[k].pc = "idle"
         THEN NoPre
         ELSE pre

ConsultedGlobal(trail) == \E i \in 1..Len(trail) : trail[i] \in {"globalFair", "global"}

\* The events that end a gap: the processor's NextTask consults the global
\* queue, or the global queue is empty.
GapEnds(p) ==
  \/ globq' = <<>>
  \/ m[p].pc = "gqhint" /\ m'[p].pc # "gqhint"

\* gap: the dispatch rounds of a processor, in a row, whose NextTask did not
\* consult the global queue while that queue was never empty.
TrackGap ==
  /\ gap' = [p \in Procs |->
               IF GapEnds(p) THEN 0
               ELSE IF m[p].pc = "got" /\ m'[p].pc = "running" /\ ~ConsultedGlobal(m[p].trail)
               THEN gap[p] + 1
               ELSE gap[p]]
  /\ skipped' = [p \in Procs |->
               IF GapEnds(p) THEN FALSE
               ELSE IF /\ m[p].pc = "idle" /\ m'[p].pc = "got"
                       /\ m'[p].src \in {"trace", "gc"}
                       /\ schedtick[p] % DefaultModulus = 0
               THEN TRUE
               ELSE skipped[p]]

(* --------------------------- specifications ---------------------------- *)
InitProg(live) ==
  /\ gstatus = [t \in Tasks |-> IF t \in UserTasks /\ t > live THEN "dead" ELSE "waiting"]
  /\ runq = [p \in Procs |-> <<>>]
  /\ runnext = [p \in Procs |-> NoG]
  /\ globq = <<>>
  /\ schedtick = [p \in Procs |-> 0]
  /\ defaultScheduler = "Default"
  /\ started = FALSE
  /\ inj = {}
  /\ m = [w \in Procs |-> MIdle]
  /\ c = [k \in Callers |-> CIdle]

InitHist ==
  /\ nret = [t \in Tasks |-> 0]
  /\ pre = NoPre
  /\ gap = [p \in Procs |-> 0]
  /\ skipped = [p \in Procs |-> FALSE]
  /\ ncalls = 0
  /\ chk = NoChk
  /\ saved = NoSched
  /\ lastset = NoSet
  /\ direct = <<>>
  /\ popped = {}
  /\ sw = NoSw

\* A processor runs at most n rounds past the tick it started with.
TickBound(starts, n) ==
  \A p \in Procs : \E t \in starts : schedtick'[p] \in t..(t + n)

\* Task handles are opaque: the task admitted is the first waiting one.
FirstWaiting(gp) == \A t \in UserTasks : t < gp => gstatus[t] # "waiting"

\* Workers and callers interleave at every access to the queues.
Init == InitProg(LiveConc) /\ InitHist

\* No probe is armed and the policy stays the default one.
Conc(A) ==
  /\ A
  /\ TickBound({0}, RoundsConc)
  /\ TrackReturns
  /\ UNCHANGED <<pre, gap, skipped, ncalls, aux>>

NextConc ==
  \/ \E w \in Procs : Conc(NTStart(w))
  \/ \E w \in Procs : Conc(GqHint(w))
  \/ \E w \in Procs : Conc(GqLock(w))
  \/ \E w \in Procs : Conc(GqPut(w))
  \/ \E w \in Procs : Conc(Local(w))
  \/ \E w \in Procs : Conc(StealTry(w))
  \/ \E w \in Procs : Conc(StealFail(w))
  \/ \E w \in Procs : Conc(Park(w))
  \/ \E w \in Procs : Conc(TimerWake(w))
  \/ \E w \in Procs : Conc(Execute(w))
  \/ \E w \in Procs : Conc(Block(w))
  \/ \E w \in Procs : Conc(Exit(w))
  \/ \E k \in Callers, gp \in UserTasks, pp \in Procs \cup {NoP}, next \in BOOLEAN,
        local \in BOOLEAN : FirstWaiting(gp) /\ Conc(QtCall(k, gp, pp, next, local))
  \/ \E k \in Callers : Conc(QtEnter(k))
  \/ \E k \in Callers : Conc(QtCas(k))
  \/ \E k \in Callers : Conc(QtPut(k))

Spec == Init /\ [][NextConc]_vars

\* One call at a time: a thread steps only while no other thread is inside
\* NextTask or QueueTask.  The start is a state the queues can be in: the
\* first tasks on processor 1 (a on its ring, r1 in its run-next slot), the
\* next b in the global queue, the next on processor 2 (a2 on its ring, r2 in
\* its run-next slot), at a tick that is a multiple of a policy's modulus.
TickStarts == {0, FairnessModulus, DefaultModulus, StealingModulus, AffinityModulus}

Quiet(ws, ks) ==
  /\ \A w \in Procs \ ws : ~InNextTask(w)
  /\ \A k \in Callers \ ks : ~InQueueTask(k)

Range(from, n) == [i \in 1..n |-> from + i]

Layout(live, a, r1, b, a2, r2) ==
  /\ runq = [p \in Procs |-> IF p = 1 THEN Range(0, a)
                             ELSE IF p = 2 THEN Range(a + r1 + b, a2)
                             ELSE <<>>]
  /\ runnext = [p \in Procs |-> IF p = 1 /\ r1 = 1 THEN a + 1
                                ELSE IF p = 2 /\ r2 = 1 THEN a + r1 + b + a2 + 1
                                ELSE NoG]
  /\ globq = Range(a + r1, b)
  /\ gstatus = [t \in Tasks |-> IF t \in UserTasks /\ t > live THEN "dead"
                                ELSE IF t <= a + r1 + b + a2 + r2 THEN "runnable"
                                ELSE "waiting"]

InitCall ==
  /\ \E a \in 0..RunqLen, r1 \in 0..1, b \in 0..LiveSeq, a2 \in 0..RunqLen, r2 \in 0..1 :
       /\ a + r1 + b + a2 + r2 <= LiveSeq
       /\ NProcs < 2 => a2 + r2 = 0
       /\ Layout(LiveSeq, a, r1, b, a2, r2)
  /\ \E t \in TickStarts : schedtick = [p \in Procs |-> t]
  /\ defaultScheduler = "Default"
  /\ started = FALSE
  /\ inj = {}
  /\ m = [w \in Procs |-> MIdle]
  /\ c = [k \in Callers |-> CIdle]
  /\ InitHist

TrackCalls ==
  ncalls' = IF \E k \in Callers : c[k].pc = "idle" /\ c'[k].pc # "idle"
            THEN ncalls + 1
            ELSE ncalls

Call(A, ws, ks) ==
  /\ Quiet(ws, ks)
  /\ A
  /\ TrackPre
  /\ TrackCalls
  /\ UNCHANGED <<nret, gap, skipped, aux>>

\* A run installs a policy and arms the probes, then calls QueueTask, then
\* calls NextTask once.
NextCall ==
  \/ \E w \in Procs : ~started /\ Call(NTStart(w), {w}, {})
  \/ \E w \in Procs : Call(GqHint(w), {w}, {})
  \/ \E w \in Procs : Call(GqLock(w), {w}, {})
  \/ \E w \in Procs : Call(GqPut(w), {w}, {})
  \/ \E w \in Procs : Call(Local(w), {w}, {})
  \/ \E w \in Procs : Call(StealTry(w), {w}, {})
  \/ \E w \in Procs : Call(StealFail(w), {w}, {})
  \/ \E w \in Procs : Call(Park(w), {w}, {})
  \/ \E w \in Procs : Call(TimerWake(w), {w}, {})
  \/ \E w \in Procs : Call(Execute(w), {w}, {})
  \/ \E w \in Procs : Call(Block(w), {w}, {})
  \/ \E w \in Procs : Call(Exit(w), {w}, {})
  \/ \E gp \in UserTasks, pp \in Procs \cup {NoP}, next \in BOOLEAN, local \in BOOLEAN :
        /\ ~started /\ ncalls < MaxQueued
        /\ FirstWaiting(gp)
        /\ Call(QtCall(1, gp, pp, next, local), {}, {1})
  \/ Call(QtEnter(1), {}, {1})
  \/ Call(QtCas(1), {}, {1})
  \/ Call(QtPut(1), {}, {1})
  \/ \E g \in Special : ncalls = 0 /\ ~started /\ Call(Inject(g), {}, {})
  \/ \E s \in Policies : ncalls = 0 /\ Call(setScheduler(s), {}, {})

SpecCall == InitCall /\ [][NextCall]_vars

\* QueueTask calls interleave at every access to the queues while no worker
\* dispatches.  The start is any filling of processor 1 and the global queue.
InitQueue ==
  /\ \E a \in 0..RunqLen, r1 \in 0..1, b \in 0..1 :
       /\ a + r1 + b <= NTasks
       /\ Layout(NTasks, a, r1, b, 0, 0)
  /\ schedtick = [p \in Procs |-> 0]
  /\ defaultScheduler = "Default"
  /\ started = FALSE
  /\ inj = {}
  /\ m = [w \in Procs |-> MIdle]
  /\ c = [k \in Callers |-> CIdle]
  /\ InitHist

Queue(A) ==
  /\ A
  /\ TrackCalls
  /\ UNCHANGED <<nret, pre, gap, skipped, aux>>

NextQueue ==
  \/ \E k \in Callers, gp \in UserTasks, pp \in Procs \cup {NoP}, next \in BOOLEAN,
        local \in BOOLEAN :
        /\ ncalls < NCallers
        /\ FirstWaiting(gp)
        /\ Queue(QtCall(k, gp, pp, next, local))
  \/ \E k \in Callers : Queue(QtEnter(k))
  \/ \E k \in Callers : Queue(QtCas(k))
  \/ \E k \in Callers : Queue(QtPut(k))

SpecQueue == InitQueue /\ [][NextQueue]_vars

\* One processor dispatches for RoundsFair rounds, one call at a time, while
\* a thread admits the tasks that block and the trace reader gets data.
InitFair == InitProg(LiveFair) /\ InitHist

Fair(A, ws, ks) ==
  /\ Quiet(ws, ks)
  /\ A
  /\ TickBound({0}, RoundsFair)
  /\ TrackGap
  /\ UNCHANGED <<nret, pre, ncalls, aux>>

NextFair ==
  \/ Fair(NTStart(1), {1}, {})
  \/ Fair(GqHint(1), {1}, {})
  \/ Fair(GqLock(1), {1}, {})
  \/ Fair(GqPut(1), {1}, {})
  \/ Fair(Local(1), {1}, {})
  \/ Fair(StealTry(1), {1}, {})
  \/ Fair(StealFail(1), {1}, {})
  \/ Fair(Park(1), {1}, {})
  \/ Fair(TimerWake(1), {1}, {})
  \/ Fair(Execute(1), {1}, {})
  \/ Fair(Block(1), {1}, {})
  \/ \E gp \in UserTasks, pp \in {1, NoP}, next \in BOOLEAN, local \in BOOLEAN :
        FirstWaiting(gp) /\ Fair(QtCall(1, gp, pp, next, local), {}, {1})
  \/ Fair(QtEnter(1), {}, {1})
  \/ Fair(QtCas(1), {}, {1})
  \/ Fair(QtPut(1), {}, {1})
  \/ Fair(Inject(TraceG), {}, {})

SpecFair == InitFair /\ [][NextFair]_vars

\* Every task is admitted once and runs to completion; workers and callers
\* interleave at every access to the queues.  Worker 1 keeps dispatching:
\* whenever it can take a step it eventually takes one.
InitLive == InitProg(LiveLive) /\ InitHist

Live(A) ==
  /\ A
  /\ TrackReturns
  /\ UNCHANGED <<pre, gap, skipped, ncalls, aux>>

WorkerLive(w) ==
  \/ Live(NTStart(w))
  \/ Live(GqHint(w))
  \/ Live(GqLock(w))
  \/ Live(GqPut(w))
  \/ Live(Local(w))
  \/ Live(StealTry(w))
  \/ Live(StealFail(w))
  \/ Live(Park(w))
  \/ Live(TimerWake(w))
  \/ Live(Execute(w))
  \/ Live(Exit(w))

\* The steps that carry a QueueTask call to its end.
CallerLive(k) ==
  \/ Live(QtEnter(k))
  \/ Live(QtCas(k))
  \/ Live(QtPut(k))

NextLive ==
  \/ \E w \in Procs : WorkerLive(w)
  \/ \E gp \in UserTasks, pp \in Procs \cup {NoP}, next \in BOOLEAN, local \in BOOLEAN :
        FirstWaiting(gp) /\ Live(QtCall(1, gp, pp, next, local))
  \/ CallerLive(1)

SpecLive == InitLive /\ [][NextLive]_vars /\ WF_vars(WorkerLive(1))

\* direct: the tasks whose QueueTask call went to the global queue, in the
\* order of the calls.  popped: the tasks that have left the global queue.
TrackGlobal ==
  /\ direct' = IF \E k \in Callers :
                    /\ c[k].pc = "enter" /\ c'[k].pc = "idle"
                    /\ ~(c[k].local /\ c[k].pp # NoP)
                 THEN Append(direct, c[CHOOSE k \in Callers : c[k].pc = "enter"].gp)
                 ELSE direct
  /\ popped' = popped \cup ({globq[i] : i \in 1..Len(globq)} \ {globq'[i] : i \in 1..Len(globq')})

\* One call at a time, by one thread that admits tasks and by the workers,
\* which dispatch RoundsConc rounds each.  Every task is admitted once and
\* runs to completion.  The start is any filling of processor 1's ring, with
\* the global queue empty or not, at a tick where the fairness check is true
\* or at the next one.
InitGlobal ==
  /\ \E a \in 0..RunqLen, b \in 0..1 :
       /\ a + b <= NTasks
       /\ Layout(NTasks, a, 0, b, 0, 0)
  /\ \E t \in 0..1 : schedtick = [p \in Procs |-> t]
  /\ defaultScheduler = "Default"
  /\ started = FALSE
  /\ inj = {}
  /\ m = [w \in Procs |-> MIdle]
  /\ c = [k \in Callers |-> CIdle]
  /\ InitHist

Global(A, ws, ks) ==
  /\ Quiet(ws, ks)
  /\ A
  /\ TickBound(0..1, RoundsConc)
  /\ TrackGlobal
  /\ TrackCalls
  /\ UNCHANGED <<nret, pre, gap, skipped, chk, saved, lastset, sw>>

NextGlobal ==
  \/ \E w \in Procs : Global(NTStart(w), {w}, {})
  \/ \E w \in Procs : Global(GqHint(w), {w}, {})
  \/ \E w \in Procs : Global(GqLock(w), {w}, {})
  \/ \E w \in Procs : Global(GqPut(w), {w}, {})
  \/ \E w \in Procs : Global(Local(w), {w}, {})
  \/ \E w \in Procs : Global(StealTry(w), {w}, {})
  \/ \E w \in Procs : Global(StealFail(w), {w}, {})
  \/ \E w \in Procs : Global(Park(w), {w}, {})
  \/ \E w \in Procs : Global(TimerWake(w), {w}, {})
  \/ \E w \in Procs : Global(Execute(w), {w}, {})
  \/ \E w \in Procs : Global(Exit(w), {w}, {})
  \/ \E gp \in UserTasks, pp \in Procs \cup {NoP}, next \in BOOLEAN, local \in BOOLEAN :
        /\ ncalls < MaxDirect
        /\ FirstWaiting(gp)
        /\ Global(QtCall(1, gp, pp, next, local), {}, {1})
  \/ Global(QtEnter(1), {}, {1})
  \/ Global(QtCas(1), {}, {1})
  \/ Global(QtPut(1), {}, {1})

SpecGlobal == InitGlobal /\ [][NextGlobal]_vars

\* The configuring code, before any worker dispatches: it installs policies,
\* keeps the one it found and puts it back, and asks the installed policy for
\* its fairness check.  Processor p is at tick t + p - 1, t any tick up to
\* the largest modulus; the global queue is empty or not.
InitPolicy ==
  /\ \E b \in 0..1 : Layout(LiveSeq, 0, 0, b, 0, 0)
  /\ \E t \in 0..AffinityModulus : schedtick = [p \in Procs |-> t + p - 1]
  /\ defaultScheduler = "Default"
  /\ started = FALSE
  /\ inj = {}
  /\ m = [w \in Procs |-> MIdle]
  /\ c = [k \in Callers |-> CIdle]
  /\ InitHist

Policy(A) ==
  /\ A
  /\ UNCHANGED <<nret, pre, gap, skipped, ncalls, direct, popped, sw>>

\* setScheduler(s) called with s, from a saved policy or not.
SetCall(s, restore) ==
  /\ setScheduler(s)
  /\ lastset' = [s |-> s, restore |-> restore]
  /\ UNCHANGED <<chk, saved>>

NextPolicy ==
  \/ \E s \in Policies : Policy(SetCall(s, FALSE))
  \/ Policy(SaveScheduler /\ UNCHANGED <<chk, lastset>>)
  \/ Policy(saved # NoSched /\ SetCall(saved, TRUE))
  \/ \E p \in Procs : Policy(CheckCall(p) /\ UNCHANGED <<saved, lastset>>)

SpecPolicy == InitPolicy /\ [][NextPolicy]_vars

\* Direct calls of StealWork, one at a time, by the worker of either
\* processor and with either processor as the argument.  The start is any
\* filling of the queues with up to LiveSeq tasks.
InitSteal ==
  /\ \E a \in 0..RunqLen, r1 \in 0..1, b \in 0..1, a2 \in 0..RunqLen, r2 \in 0..1 :
       /\ a + r1 + b + a2 + r2 <= LiveSeq
       /\ NProcs < 2 => a2 + r2 = 0
       /\ Layout(LiveSeq, a, r1, b, a2, r2)
  /\ schedtick = [p \in Procs |-> 0]
  /\ defaultScheduler = "Default"
  /\ started = FALSE
  /\ inj = {}
  /\ m = [w \in Procs |-> MIdle]
  /\ c = [k \in Callers |-> CIdle]
  /\ InitHist

Steal(A) ==
  /\ A
  /\ TickBound({0}, RoundsConc)
  /\ UNCHANGED <<nret, pre, gap, skipped, ncalls, chk, saved, lastset, direct, popped>>

NextSteal ==
  \/ \E w \in Procs, pp \in Procs : Steal(StealCall(w, pp))
  \/ \E w \in Procs : Steal(Park(w) /\ UNCHANGED sw)
  \/ \E w \in Procs : Steal(TimerWake(w) /\ UNCHANGED sw)
  \/ \E w \in Procs : Steal(Execute(w) /\ UNCHANGED sw)
  \/ \E w \in Procs : Steal(Exit(w) /\ UNCHANGED sw)

SpecSteal == InitSteal /\ [][NextSteal]_vars

\* The workers dispatch RoundsConc rounds each and interleave at every access
\* to the queues; nothing is admitted.  The start is any filling of processor
\* 1's ring and up to MaxGlobal tasks in the global queue, at a tick where
\* the fairness check is true.
InitRefill ==
  /\ \E a \in 0..RunqLen, b \in 0..MaxGlobal :
       /\ a + b <= NTasks
       /\ Layout(NTasks, a, 0, b, 0, 0)
  /\ schedtick = [p \in Procs |-> 0]
  /\ defaultScheduler = "Default"
  /\ started = FALSE
  /\ inj = {}
  /\ m = [w \in Procs |-> MIdle]
  /\ c = [k \in Callers |-> CIdle]
  /\ InitHist

Refill(A) ==
  /\ A
  /\ TickBound({0}, RoundsConc)
  /\ UNCHANGED <<nret, pre, gap, skipped, ncalls, aux>>

NextRefill ==
  \/ \E w \in Procs : Refill(NTStart(w))
  \/ \E w \in Procs : Refill(GqHint(w))
  \/ \E w \in Procs : Refill(GqLock(w))
  \/ \E w \in Procs : Refill(GqPut(w))
  \/ \E w \in Procs : Refill(Local(w))
  \/ \E w \in Procs : Refill(StealTry(w))
  \/ \E w \in Procs : Refill(StealFail(w))
  \/ \E w \in Procs : Refill(Park(w))
  \/ \E w \in Procs : Refill(TimerWake(w))
  \/ \E w \in Procs : Refill(Execute(w))
  \/ \E w \in Procs : Refill(Exit(w))

SpecRefill == InitRefill /\ [][NextRefill]_vars

\* QueueTask calls that all target processor 1 interleave, at every access
\* to the queues, with each other, with the NextTask calls of processor 1's
\* worker and with those of the other workers, which steal from it.  Each
\* caller admits one task, each worker dispatches RoundsConc rounds.  The
\* start is any filling of processor 1's ring and run-next slot.
InitAdmit ==
  /\ \E a \in 0..RunqLen, r1 \in 0..1 :
       /\ a + r1 <= NTasks
       /\ Layout(NTasks, a, r1, 0, 0, 0)
  /\ schedtick = [p \in Procs |-> 0]
  /\ defaultScheduler = "Default"
  /\ started = FALSE
  /\ inj = {}
  /\ m = [w \in Procs |-> MIdle]
  /\ c = [k \in Callers |-> CIdle]
  /\ InitHist

Admit(A) ==
  /\ A
  /\ TickBound({0}, RoundsConc)
  /\ TrackCalls
  /\ UNCHANGED <<nret, pre, gap, skipped, aux>>

NextAdmit ==
  \/ \E w \in Procs : Admit(NTStart(w))
  \/ \E w \in Procs : Admit(GqHint(w))
  \/ \E w \in Procs : Admit(GqLock(w))
  \/ \E w \in Procs : Admit(GqPut(w))
  \/ \E w \in Procs : Admit(Local(w))
  \/ \E w \in Procs : Admit(StealTry(w))
  \/ \E w \in Procs : Admit(StealFail(w))
  \/ \E w \in Procs : Admit(Park(w))
  \/ \E w \in Procs : Admit(TimerWake(w))
  \/ \E w \in Procs : Admit(Execute(w))
  \/ \E w \in Procs : Admit(Exit(w))
  \/ \E k \in Callers, gp \in UserTasks, next \in BOOLEAN :
        /\ ncalls < NCallers
        /\ FirstWaiting(gp)
        /\ Admit(QtCall(k, gp, 1, next, TRUE))
  \/ \E k \in Callers : Admit(QtEnter(k))
  \/ \E k \in Callers : Admit(QtCas(k))
  \/ \E k \in Callers : Admit(QtPut(k))

SpecAdmit == InitAdmit /\ [][NextAdmit]_vars

(* ------------------------- where a task is held ------------------------ *)
Occ(s, t) == Cardinality({i \in 1..Len(s) : s[i] = t})

RECURSIVE RingOcc(_, _)
RingOcc(t, p) == IF p = 0 THEN 0 ELSE Occ(runq[p], t) + RingOcc(t, p - 1)

\* The places of t in the rings, the run-next slots, the global queue and
\* the running slots.
Held(t) ==
  RingOcc(t, NProcs) + Cardinality({p \in Procs : runnext[p] = t})
    + Occ(globq, t) + Cardinality({w \in Procs : m[w].pc = "running" /\ m[w].gp = t})

\* The tasks a call in progress has in hand: the one QueueTask has not placed
\* yet, the displaced run-next task it has not re-pushed yet, the task and
\* the batch GetFromGlobalQueue took, the task NextTask returned and which
\* does not run yet.
InTransit(t) ==
  Cardinality({k \in Callers : c[k].pc \in {"enter", "cas", "putgp"} /\ c[k].gp = t})
    + Cardinality({k \in Callers : c[k].pc = "putold" /\ c[k].oldnext = t})
    + Cardinality({w \in Procs : m[w].pc \in {"gqput", "got"} /\ m[w].gp = t})
    + Cardinality({w \in Procs : Occ(m[w].q, t) > 0})

Queued(t) == Held(t) > 0 /\ gstatus[t] = "runnable"

IsLive(t) == gstatus[t] \in {"runnable", "running"}

(* ------------------------------- claims -------------------------------- *)
\* C1: no duplication - a task queued once is returned by at most one
\* NextTask (its local pop, its global take or its steal) during that
\* Runnable period, whatever the interleaving of workers and callers.
C1_NoDuplication == \A t \in Tasks : nret[t] <= 1

\* A thief and the owner have each taken a task from the same ring.
C1_Witness ==
  \E w \in Procs, v \in Procs :
    /\ w # v
    /\ m[w].pc = "got" /\ m[w].src = "steal"
    /\ m[v].pc = "got" /\ m[v].src = "local"
    /\ nret[m[w].gp] = 1 /\ nret[m[v].gp] = 1

\* C3: no lost wakeup - QueueTask wakes a parked worker, so no Runnable task
\* sits in a queue while every worker is parked and no call is in progress.
C3_NoLostWakeup ==
  ~ /\ \A w \in Procs : m[w].pc = "parked"
    /\ \A k \in Callers : c[k].pc = "idle"
    /\ \E t \in UserTasks : Queued(t)

\* C4: single ownership - each task is in at most one place among the rings,
\* the run-next slots, the global queue and the running slots.
C4_SingleOwnership == \A t \in Tasks : Held(t) <= 1

\* QueueTask displaced a task from a run-next slot onto the ring.
C4_Witness ==
  \E p \in Procs :
    /\ runnext[p] # NoG
    /\ runq[p] # <<>>
    /\ \A k \in Callers : c[k].pc = "idle"

\* C5 as stated: in every state the tasks held in the queues and the running
\* slots are as many as the Runnable and Running tasks.
C5_Conservation ==
  \A t \in Tasks : Held(t) = IF IsLive(t) THEN 1 ELSE 0

\* C5 amended: the count is exact once the tasks in the hands of the calls in
\* progress are counted with the queues.
C5_ConservationInTransit ==
  \A t \in Tasks : Held(t) + InTransit(t) = IF IsLive(t) THEN 1 ELSE 0

\* QueueTask has swapped the run-next slot and holds the displaced task.
C5_Witness ==
  \E k \in Callers :
    /\ c[k].pc = "putold"
    /\ c[k].oldnext # NoG
    /\ runnext[c[k].pp] = c[k].gp

(* -------------------- one NextTask call, start to end ------------------ *)
\* The NextTask call of worker w has ended: with a task, or with nil.
Ended(w) == m[w].pc \in {"got", "nil"}

PreLocalEmpty(w) == pre.runq[w] = <<>> /\ pre.runnext[w] = NoG

PreStealable(w) == \E v \in Procs \ {w} : Len(pre.runq[v]) >= 2

\* The first source, in the order of section 4.4, that holds a task when the
\* call starts, the fairness check being decided with modulus md.
FirstSource(w, md) ==
  IF TraceG \in pre.inj THEN "trace"
  ELSE IF GcG \in pre.inj THEN "gc"
  ELSE IF schedtick[w] % md = 0 /\ pre.globq # <<>> THEN "globalFair"
  ELSE IF ~PreLocalEmpty(w) THEN "local"
  ELSE IF pre.globq # <<>> THEN "global"
  ELSE IF PreStealable(w) THEN "steal"
  ELSE "none"

\* The sources in the order NextTask may consult them; the fairness check
\* is consulted only when it is true.
Order == <<"trace", "gc", "globalFair", "local", "global", "steal">>

OrderNoFair == <<"trace", "gc", "local", "global", "steal">>

IsPrefix(s, t) == Len(s) <= Len(t) /\ SubSeq(t, 1, Len(s)) = s

\* C7: unconditional global fallback - a NextTask call that starts with no
\* injected work, an empty ring and an empty run-next slot while the global
\* queue is not empty returns the head of the global queue, at any tick.
C7_GlobalFallback ==
  \A w \in Procs :
    (Ended(w) /\ pre.inj = {} /\ PreLocalEmpty(w) /\ pre.globq # <<>>)
      => /\ m[w].pc = "got"
         /\ m[w].gp = Head(pre.globq)
         /\ m[w].src \in {"globalFair", "global"}

\* Scenario A: the only task of the system was put in the global queue by
\* QueueTask, and a NextTask call that skipped the fairness check returned it.
C7_Witness ==
  \E w \in Procs :
    /\ m[w].pc = "got" /\ m[w].src = "global" /\ m[w].gp = 1
    /\ ncalls = 1
    /\ pre.globq = <<1>> /\ pre.inj = {}
    /\ \A p \in Procs : pre.runq[p] = <<>> /\ pre.runnext[p] = NoG
    /\ \A t \in UserTasks \ {1} : gstatus[t] # "runnable"

\* C9: consultation order under the Default policy - a NextTask call consults
\* the trace reader, the GC worker, the global queue if the fairness check is
\* true, the local queue, the global queue, work stealing, in this order, and
\* returns the task of the first source that holds one.
C9_ConsultationOrder ==
  \A w \in Procs :
    (defaultScheduler = "Default" /\ m[w].pc # "idle")
      => /\ IsPrefix(m[w].trail, Order) \/ IsPrefix(m[w].trail, OrderNoFair)
         /\ Ended(w) => m[w].src = FirstSource(w, DefaultModulus)
         /\ m[w].pc = "got" => m[w].trail[Len(m[w].trail)] = m[w].src

\* A call went through every source down to work stealing and stole a task.
C9_Witness ==
  \E w \in Procs :
    /\ defaultScheduler = "Default"
    /\ m[w].pc = "got" /\ m[w].src = "steal"
    /\ m[w].trail = OrderNoFair

\* C10: policy override - the fairness check of a NextTask call is decided
\* with the modulus of the installed policy (31, 127, 101), so the call
\* returns the task of the first source chosen with that modulus.
C10_PolicyOverride ==
  \A w \in Procs :
    Ended(w) => m[w].src = FirstSource(w, Modulus(defaultScheduler))

(* ----------------------- where QueueTask puts a task ------------------- *)
\* Caller k takes the step that puts its task g in a queue.
Lands(k, g) ==
  /\ c[k].pc # "idle" /\ c[k].gp = g /\ c'[k] # c[k]
  /\ Held(g) = 0 /\ Held(g)' = 1

\* g goes to the tail of the global queue and no local queue changes.
ToGlobal(g) ==
  globq' = Append(globq, g) /\ runq' = runq /\ runnext' = runnext

\* g goes to the tail of p's ring and nothing else changes.
ToRing(p, g) ==
  runq' = [runq EXCEPT ![p] = Append(@, g)] /\ globq' = globq /\ runnext' = runnext

\* g goes to p's run-next slot and nothing else changes.
ToRunNext(p, g) ==
  runnext' = [runnext EXCEPT ![p] = g] /\ runq' = runq /\ globq' = globq

\* p's ring is full: its oldest half and g go to the global queue as a batch.
Spilled(p, g) ==
  LET n == RunqLen \div 2
  IN /\ Len(runq[p]) = RunqLen
     /\ runq' = [runq EXCEPT ![p] = SubSeq(@, n + 1, RunqLen)]
     /\ globq' = globq \o SubSeq(runq[p], 1, n) \o <<g>>
     /\ runnext' = runnext

\* C6 as stated: QueueTask puts the task in the run-next slot of pp when
\* local, pp and next are given, on the ring of pp when local and pp are
\* given without next, and otherwise at the tail of the global queue, no
\* local queue changing.
C6_Routing ==
  [][\A k \in Callers, g \in UserTasks :
       Lands(k, g) =>
         IF c[k].local /\ c[k].pp # NoP
         THEN IF c[k].next THEN ToRunNext(c[k].pp, g) ELSE ToRing(c[k].pp, g)
         ELSE ToGlobal(g)]_vars

\* C6 amended: with local and pp given the task goes to the run-next slot of
\* pp when next is given and the slot still holds what QueueTask read from it,
\* and otherwise to the ring of pp, or, that ring being full, to the global
\* queue behind the oldest half of the ring; the task a swap displaces is
\* pushed on the ring in the same way; without local or pp the task goes to
\* the tail of the global queue and no local queue changes.
C6_RoutingAmended ==
  [][\A k \in Callers, g \in UserTasks :
       /\ Lands(k, g) =>
            IF c[k].local /\ c[k].pp # NoP
            THEN IF c[k].next /\ c[k].pc = "cas"
                 THEN runnext[c[k].pp] = c[k].oldnext /\ ToRunNext(c[k].pp, g)
                 ELSE ToRing(c[k].pp, g) \/ Spilled(c[k].pp, g)
            ELSE ToGlobal(g)
       /\ (c[k].pc = "cas" /\ c'[k].pc = "putgp") => runnext[c[k].pp] # c[k].oldnext
       /\ (c[k].pc = "putold" /\ c[k].oldnext = g /\ c'[k] # c[k])
            => ToRing(c[k].pp, g) \/ Spilled(c[k].pp, g)]_vars

\* A swap failed because another call changed the slot, and the ring the
\* task now goes to is full.
C6_Witness ==
  \E k \in Callers :
    /\ c[k].pc = "putgp"
    /\ runnext[c[k].pp] # c[k].oldnext
    /\ Len(runq[c[k].pp]) = RunqLen

\* C8 as stated: while the global queue is not empty, fewer than 61 dispatch
\* rounds of a processor pass in a row without a NextTask call of it that
\* consults the global queue, injected work or not.
C8_FairnessBound == \A p \in Procs : gap[p] < DefaultModulus

\* C8 amended: 61 such rounds or more pass in a row only when a NextTask call
\* at a tick that is a multiple of 61 returned injected work (trace reader or
\* GC worker), which NextTask looks for before the fairness check.
C8_FairnessBoundAmended == \A p \in Procs : gap[p] >= DefaultModulus => skipped[p]

\* The trace reader pre-empted the fairness check at tick 61 and the round
\* that followed was the 61st without a look at the global queue.
C8_Witness ==
  /\ gap[1] = DefaultModulus
  /\ skipped[1]
  /\ globq # <<>>
  /\ schedtick[1] = DefaultModulus + 1

C12_StealBeforeGlobal ==
  \A w \in Procs :
    (/\ defaultScheduler = "FavorStealing"
     /\ Ended(w)
     /\ pre.inj = {}
     /\ PreLocalEmpty(w)
     /\ PreStealable(w)
     /\ pre.globq # <<>>
     /\ schedtick[w] % StealingModulus # 0)
      => m[w].pc = "got" /\ m[w].src = "steal"

(* ------------------------- safety under a policy ----------------------- *)
\* The NextTask calls that have returned t and whose worker does not run it yet.
Returned(t) == Cardinality({w \in Procs : m[w].pc = "got" /\ m[w].gp = t})

\* No QueueTask or NextTask call is in progress.
AtRest ==
  /\ \A k \in Callers : ~InQueueTask(k)
  /\ \A w \in Procs : m[w].pc \in {"idle", "got", "nil", "running", "parked"}

\* C16: whichever of the four policies is installed, a sequence of QueueTask
\* and NextTask calls keeps every task in at most one place, returns no task
\* that is still queued and drops none: between calls the tasks in the
\* queues and running slots plus the tasks returned are the Runnable and
\* Running tasks, so the policy can change the source of the task returned
\* and nothing else.
C16_PolicySafety ==
  \A pol \in Policies : defaultScheduler = pol =>
    \A t \in Tasks :
      /\ Held(t) <= 1
      /\ AtRest => Held(t) + Returned(t) = IF IsLive(t) THEN 1 ELSE 0

\* Under FavorAffinity a task was admitted and a NextTask call stole a task.
C16_Witness ==
  /\ defaultScheduler = "FavorAffinity"
  /\ ncalls = 1
  /\ AtRest
  /\ \E w \in Procs : m[w].pc = "got" /\ m[w].src = "steal"

(* --------------------------- the run-next slot ------------------------- *)
\* A run-next slot holds one task or none.
OneInSlot == \A p \in Procs : runnext[p] \in UserTasks \cup {NoG}

\* Caller k, inside QueueTask(gp, pp, true, true), takes a step.
RunNextStep(k) ==
  c[k].next /\ c[k].local /\ c[k].pp # NoP /\ c'[k] # c[k]

\* C15 as stated: QueueTask with runNext and preferLocal on P puts the new
\* task in P's run-next slot and the task that was there on P's ring, so
\* that after two such calls in a row the slot holds the second task and
\* the ring the first; the slot never holds more than one task.
C15_RunNextPush ==
  [][/\ OneInSlot'
     /\ \A k \in Callers :
          RunNextStep(k) =>
            /\ c[k].pc = "cas" => ToRunNext(c[k].pp, c[k].gp)
            /\ c[k].pc = "putold" => ToRing(c[k].pp, c[k].oldnext)
            /\ c[k].pc # "putgp"]_vars

\* C15 amended: the new task goes to the slot when the slot still holds what
\* QueueTask read from it, and the task that was there is then pushed on P's
\* ring, or, that ring being full, to the global queue behind the oldest
\* half of the ring; when the slot has changed, it is left alone and the new
\* task is pushed on the ring in the same way.
C15_RunNextPushAmended ==
  [][/\ OneInSlot'
     /\ \A k \in Callers :
          RunNextStep(k) =>
            /\ c[k].pc = "cas" =>
                 IF runnext[c[k].pp] = c[k].oldnext
                 THEN /\ ToRunNext(c[k].pp, c[k].gp)
                      /\ IF c[k].oldnext = NoG
                         THEN c'[k].pc = "idle"
                         ELSE c'[k].pc = "putold" /\ c'[k].oldnext = c[k].oldnext
                 ELSE /\ UNCHANGED <<runnext, runq, globq>>
                      /\ c'[k].pc = "putgp" /\ c'[k].gp = c[k].gp
            /\ c[k].pc = "putold" =>
                 /\ ToRing(c[k].pp, c[k].oldnext) \/ Spilled(c[k].pp, c[k].oldnext)
                 /\ c'[k].pc = "idle"
            /\ c[k].pc = "putgp" =>
                 /\ ToRing(c[k].pp, c[k].gp) \/ Spilled(c[k].pp, c[k].gp)
                 /\ c'[k].pc = "idle"]_vars

\* Two calls in a row: the first put its task in the slot, the second has
\* swapped its own in and is about to push the first on a ring that is full.
C15_Witness ==
  \E k \in Callers :
    /\ c[k].pc = "putold"
    /\ ncalls = 2
    /\ \A j \in Callers \ {k} : c[j].pc = "idle"
    /\ c[k].oldnext = c[k].gp - 1
    /\ runnext[c[k].pp] = c[k].gp
    /\ c[k].gp < NTasks /\ gstatus[c[k].gp + 1] = "waiting"
    /\ Len(runq[c[k].pp]) = RunqLen

(* ----------------------------- ring overflow -------------------------- *)
\* Caller k takes the step that pushes task g on the ring of processor p.
RingPush(k, p, g) ==
  /\ c[k].pp = p /\ c[k].local /\ c'[k] # c[k]
  /\ \/ c[k].pc = "enter" /\ ~c[k].next /\ g = c[k].gp
     \/ c[k].pc = "putgp" /\ g = c[k].gp
     \/ c[k].pc = "putold" /\ g = c[k].oldnext

\* C18: a push on a full ring, of a new task without runNext or of a task
\* displaced from the run-next slot, moves the oldest half of the ring and
\* the pushed task to the tail of the global queue as one batch; a ring
\* never holds more than its capacity and no task is dropped.
C18_Overflow ==
  [][/\ \A p \in Procs : Len(runq'[p]) <= RunqLen
     /\ \A t \in Tasks : (Held(t) + InTransit(t))' = IF IsLive(t)' THEN 1 ELSE 0
     /\ \A k \in Callers, p \in Procs, g \in UserTasks :
          RingPush(k, p, g) =>
            IF Len(runq[p]) = RunqLen THEN Spilled(p, g) ELSE ToRing(p, g)]_vars

\* The ring of processor 1 was full and a push moved its oldest half, T1 and
\* T2 among it, to the global queue.
C18_Witness ==
  /\ Occ(globq, 1) = 1 /\ Occ(globq, 2) = 1
  /\ Len(runq[1]) = RunqLen - RunqLen \div 2
  /\ Head(runq[1]) = RunqLen \div 2 + 1
  /\ \A k \in Callers : c[k].pc = "idle"

C13_HalfSteal ==
  \A w \in Procs :
    (Ended(w) /\ m[w].src \in {"steal", "none"}) =>
      IF m[w].pc = "got"
      THEN \E v \in Procs \ {w} :
             LET k == Len(pre.runq[v])
                 n == (k + 1) \div 2
             IN /\ k >= 2
                /\ runq[v] = SubSeq(pre.runq[v], n + 1, k)
                /\ Len(runq[v]) = k \div 2
                /\ runq[w] \o <<m[w].gp>> = SubSeq(pre.runq[v], 1, n)
                /\ \A u \in Procs \ {v, w} : runq[u] = pre.runq[u]
      ELSE /\ \A v \in Procs : Len(pre.runq[v]) < 2
           /\ runq = pre.runq

\* Scenario B: P1's ring held T1..T4 and P2 stole: P2 has two tasks, one to
\* run and one on its ring, and P1 keeps two.
C13_Witness ==
  /\ m[2].pc = "got" /\ m[2].src = "steal"
  /\ pre.runq[1] = <<1, 2, 3, 4>>
  /\ m[2].gp = 2 /\ runq[2] = <<1>>
  /\ runq[1] = <<3, 4>>

(* ----------------------------- policy calls ---------------------------- *)
\* The moduli as the policies document them.
DocumentedModulus(pol) ==
  CASE pol = "Default" -> 61
    [] pol = "FavorFairness" -> 31
    [] pol = "FavorAffinity" -> 127
    [] pol = "FavorStealing" -> 101

\* C11: CheckGlobalQueue of the installed policy returns true exactly when
\* the processor's tick is a multiple of the policy's modulus (61 Default,
\* 31 FavorFairness, 127 FavorAffinity, 101 FavorStealing) and the global
\* queue is not empty, and the call changes no queue and no tick.
C11_CheckGlobalQueue ==
  [][chk' # chk =>
       /\ chk'.s = defaultScheduler
       /\ chk'.res = (schedtick[chk'.pp] % DocumentedModulus(defaultScheduler) = 0
                        /\ globq # <<>>)
       /\ UNCHANGED <<runq, runnext, globq, schedtick>>]_vars

\* FavorStealing said yes at tick 101 with a task in the global queue.
C11_Witness ==
  /\ chk.s = "FavorStealing"
  /\ chk.res
  /\ schedtick[chk.pp] = 101
  /\ globq # <<>>

\* C17: getScheduler returns the policy last passed to setScheduler, the
\* Default policy when setScheduler was never called; it is never nil; after
\* setScheduler puts back a saved policy getScheduler returns that policy.
C17_GetSetRoundTrip ==
  /\ getScheduler = IF lastset = NoSet THEN "Default" ELSE lastset.s
  /\ getScheduler \in Policies
  /\ lastset.restore => getScheduler = saved

\* An example policy was saved, replaced, and put back.
C17_Witness ==
  /\ lastset.restore
  /\ saved \in Policies \ {"Default"}
  /\ getScheduler = saved

(* --------------------------- direct stealing --------------------------- *)
Elems(q) == {q[i] : i \in 1..Len(q)}

\* C21: a StealWork(P, worker, now) call that returns a task puts the rest of
\* what it took from the victim on the ring of P, the processor passed as
\* the argument, whichever processor that is, and adds nothing to the ring
\* of any other processor.
C21_StealDestination ==
  [][(sw' # sw /\ sw'.gp # NoG) =>
       LET taken == UNION {Elems(runq[v]) \ Elems(runq'[v]) : v \in Procs}
       IN /\ taken \ {sw'.gp} \subseteq Elems(runq'[sw'.pp]) \cup Elems(globq')
          /\ \A u \in Procs \ {sw'.pp} : Elems(runq'[u]) \subseteq Elems(runq[u])]_vars

(* --------------------------- the newWork flag -------------------------- *)
\* C22: NextTask does not return "no task" from a work-stealing pass that
\* reported new work: after such a pass the dispatch searches once more
\* before the worker parks.
C22_RetryOnNewWork ==
  \A w \in Procs : m[w].pc = "nil" => ~m[w].newWork

(* ---------------------------- the nil result ---------------------------- *)
\* C23: with one call at a time, a NextTask call on processor w returns
\* (nil, false, false) exactly when it found no injected task, the ring and
\* the run-next slot of w empty, the global queue empty and no victim work
\* stealing can take from; in every other case it returns a task.
C23_NoWork ==
  \A w \in Procs :
    Ended(w) =>
      /\ m[w].pc = "nil" <=> /\ pre.inj = {}
                             /\ PreLocalEmpty(w)
                             /\ pre.globq = <<>>
                             /\ ~PreStealable(w)
      /\ m[w].pc = "nil" => m[w].gp = NoG /\ ~m[w].inherit /\ ~m[w].wake
      /\ m[w].pc = "got" => m[w].gp # NoG

\* A call returned nil although a victim holds a task: one ring entry and a
\* run-next task, which work stealing does not take.
C23_Witness ==
  \E w \in Procs :
    /\ m[w].pc = "nil"
    /\ m[w].trail = OrderNoFair
    /\ \E v \in Procs \ {w} : Len(runq[v]) = 1 /\ runnext[v] # NoG

(* ------------------------- the wake-another flag ------------------------ *)
\* C24: NextTask returns tryWakeP = true exactly when the task it returns is
\* the trace reader or a GC worker, handed out by the injected-work check;
\* a task from the global queue, the local queue or work stealing, and a nil
\* result, come with false.  A call that returns an injected task leaves
\* every ring, every run-next slot and the global queue as it found them.
C24_WakeAnother ==
  \A w \in Procs :
    Ended(w) =>
      /\ m[w].wake <=> m[w].gp \in Special
      /\ m[w].gp \in Special =>
           /\ m[w].gp \in pre.inj
           /\ runq = pre.runq /\ runnext = pre.runnext /\ globq = pre.globq

\* A GC worker was returned with the flag set while the fairness check was
\* due and both the global queue and the caller's local queue held tasks.
C24_Witness ==
  \E w \in Procs :
    /\ m[w].pc = "got" /\ m[w].gp = GcG /\ m[w].wake
    /\ schedtick[w] % DefaultModulus = 0
    /\ globq # <<>> /\ runnext[w] # NoG /\ runq[w] # <<>>

(* ------------------------ the global batch refill ----------------------- *)
\* C25: a GetFromGlobalQueue(P) call removes a run of tasks from the head of
\* the global queue; when it ends, each of them is the returned task, or on
\* P's ring behind what the ring held, or back at the tail of the global
\* queue, and in one place only.  A call that returns no task leaves the
\* global queue and every local queue as they were.
C25_GlobalRefill ==
  [][\A w \in Procs :
       /\ (m[w].pc = "gqhint" /\ m'[w].pc \notin {"gqhint", "gqlock"}) =>
            /\ m'[w].gp = NoG
            /\ UNCHANGED <<globq, runq, runnext>>
       /\ (m[w].pc = "gqlock" /\ m'[w].pc # "gqlock") =>
            /\ UNCHANGED <<runq, runnext>>
            /\ IF m'[w].pc \in {"got", "gqput"}
               THEN /\ m'[w].gp # NoG
                    /\ globq = <<m'[w].gp>> \o m'[w].q \o globq'
               ELSE /\ m'[w].gp = NoG /\ m'[w].q = <<>>
                    /\ globq' = globq
       /\ (m[w].pc = "gqput" /\ m'[w].pc # "gqput") =>
            /\ m'[w].pc = "got" /\ m'[w].gp = m[w].gp
            /\ \E fit \in 0..Len(m[w].q) :
                 /\ runq'[w] = runq[w] \o SubSeq(m[w].q, 1, fit)
                 /\ globq' = globq \o SubSeq(m[w].q, fit + 1, Len(m[w].q))
            /\ \A t \in Elems(m[w].q) \cup {m[w].gp} :
                 Held(t)' + (IF t = m[w].gp THEN 1 ELSE 0) = 1
            /\ \A p \in Procs \ {w} : runq'[p] = runq[p]
            /\ runnext' = runnext]_vars

\* A call on a processor whose ring is full returned the head of the global
\* queue and put the rest of its batch back behind a task it never removed.
C25_Witness ==
  \E w \in Procs :
    /\ m[w].pc = "got" /\ m[w].src = "globalFair"
    /\ Len(runq[w]) = RunqLen
    /\ Len(globq) >= 2 /\ globq[Len(globq)] < globq[1]
    /\ globq[Len(globq)] = m[w].gp + 1

(* ------------------------ the global batch bound ------------------------ *)
\* C26: tasks leave the global queue only in the locked step of a
\* GetFromGlobalQueue call, which takes at most half the ring capacity, all
\* from the head.  A call whose emptiness hint finds the queue empty returns
\* no task and never reaches the lock; a call whose hint found a task and
\* whose locked step finds the queue empty returns no task and changes no
\* queue.
C26_BatchBound ==
  [][/\ Len(globq') < Len(globq) =>
          \E w \in Procs :
            /\ m[w].pc = "gqlock" /\ m'[w].pc \in {"got", "gqput"}
            /\ \E k \in 1..(RunqLen \div 2) :
                 /\ k <= Len(globq)
                 /\ globq' = SubSeq(globq, k + 1, Len(globq))
                 /\ <<m'[w].gp>> \o m'[w].q = SubSeq(globq, 1, k)
     /\ \A w \in Procs :
          /\ (m[w].pc = "gqhint" /\ m'[w].pc # "gqhint") =>
               /\ m'[w].pc = "gqlock" <=> globq # <<>>
               /\ m'[w].pc # "gqlock" => m'[w].gp = NoG
               /\ UNCHANGED <<globq, runq, runnext>>
          /\ (m[w].pc = "gqlock" /\ m'[w].pc # "gqlock" /\ globq = <<>>) =>
               /\ m'[w].pc \notin {"got", "gqput"} /\ m'[w].gp = NoG
               /\ UNCHANGED <<globq, runq, runnext>>]_vars

\* Between a worker's hint, which found a task, and its lock another worker
\* took the whole queue, a full batch.
C26_Witness ==
  \E w \in Procs, u \in Procs :
    /\ m[w].pc = "gqlock" /\ globq = <<>>
    /\ m[u].pc = "gqput" /\ Len(m[u].q) + 1 = RunqLen \div 2

(* ------------------- concurrent admission to one processor -------------- *)
\* Caller k's swap of the run-next slot fails: the slot no longer holds what
\* the call read from it.
CasFails(k) == c[k].pc = "cas" /\ c'[k].pc = "putgp"

\* Caller k pushes its new task after a failed swap.
PushAfterCasFail(k) == c[k].pc = "putgp" /\ c'[k] # c[k]

\* C27 as stated: while QueueTask calls on one processor P interleave with
\* each other, with the owner's pops and with thieves' steals, every admitted
\* task is in exactly one place (P's run-next slot, a ring, the global queue,
\* the hands of a call in progress or of a worker); a swap fails only when
\* the slot changed, and the new task is then appended to P's ring.
C27_ConcurrentAdmission ==
  [][/\ \A t \in Tasks : (Held(t) + InTransit(t))' = IF IsLive(t)' THEN 1 ELSE 0
     /\ \A k \in Callers :
          /\ CasFails(k) =>
               /\ runnext[c[k].pp] # c[k].oldnext
               /\ UNCHANGED <<runnext, runq, globq>>
          /\ PushAfterCasFail(k) =>
               /\ ToRing(c[k].pp, c[k].gp)
               /\ c'[k].pc = "idle"]_vars

\* C27 amended: after a failed swap the new task is appended to P's ring, or,
\* that ring being full, moved with the oldest half of the ring to the tail
\* of the global queue.
C27_ConcurrentAdmissionAmended ==
  [][/\ \A t \in Tasks : (Held(t) + InTransit(t))' = IF IsLive(t)' THEN 1 ELSE 0
     /\ \A k \in Callers :
          /\ CasFails(k) =>
               /\ runnext[c[k].pp] # c[k].oldnext
               /\ UNCHANGED <<runnext, runq, globq>>
          /\ PushAfterCasFail(k) =>
               /\ IF Len(runq[c[k].pp]) = RunqLen
                  THEN Spilled(c[k].pp, c[k].gp)
                  ELSE ToRing(c[k].pp, c[k].gp)
               /\ c'[k].pc = "idle"]_vars

\* The owner popped the run-next task a call had read, the call's swap
\* failed, and the ring its task now goes to is full.
C27_Witness ==
  \E k \in Callers, w \in Procs :
    /\ c[k].pc = "putgp" /\ c[k].pp = w
    /\ c[k].oldnext # NoG
    /\ m[w].pc = "got" /\ m[w].src = "local" /\ m[w].gp = c[k].oldnext
    /\ runnext[w] = NoG
    /\ Len(runq[w]) = RunqLen

(* ------------------------------ the tick -------------------------------- *)
\* C28: the tick of a processor never decreases; it goes up by one exactly
\* in the step in which the processor's worker starts to run the task its
\* NextTask call returned, and no other step (of NextTask, of work stealing,
\* of the fairness check, of QueueTask, of setScheduler) changes it.
C28_TickAccounting ==
  [][\A p \in Procs :
       IF m[p].pc = "got" /\ m'[p].pc = "running"
       THEN schedtick'[p] = schedtick[p] + 1
       ELSE schedtick'[p] = schedtick[p]]_vars

\* A policy was installed, a task was admitted, a worker stole a task and
\* runs it: its processor is one tick past the start, the others are not.
C28_Witness ==
  \E w \in Procs :
    /\ m[w].pc = "running"
    /\ defaultScheduler # "Default" /\ ncalls = 1
    /\ schedtick[w] = StealingModulus + 1
    /\ \A p \in Procs \ {w} : schedtick[p] = StealingModulus
    /\ Len(runq[w]) = 1

(* -------------------------- the inherit-time flag ----------------------- *)
\* C29: NextTask returns inheritTime = false with the trace reader, with a
\* GC worker and with a task of the global queue.  The flag is true only
\* with a task of the local queue or of work stealing, and is then what that
\* source reported: the local pop reports true for the run-next task and
\* false for a ring entry, work stealing reports false.
C29_InheritTime ==
  \A w \in Procs :
    Ended(w) =>
      /\ (m[w].gp \in Special \/ m[w].gp \in Elems(pre.globq)) => ~m[w].inherit
      /\ m[w].inherit => /\ m[w].gp # NoG
                         /\ \/ m[w].gp = pre.runnext[w]
                            \/ \E p \in Procs : m[w].gp \in Elems(pre.runq[p])
      /\ (m[w].gp # NoG /\ m[w].gp = pre.runnext[w]) => m[w].inherit
      /\ (\E p \in Procs : m[w].gp \in Elems(pre.runq[p])) => ~m[w].inherit

\* A call returned the run-next task with the flag set while the global
\* queue held a task, which it left alone.
C29_Witness ==
  \E w \in Procs :
    /\ m[w].pc = "got" /\ m[w].inherit
    /\ m[w].gp = pre.runnext[w]
    /\ pre.globq # <<>> /\ globq = pre.globq
    /\ defaultScheduler = "FavorStealing"

(* --------------------------- frame of admission ------------------------- *)
\* Caller k, inside QueueTask, takes a step.
QtStep(k) == c[k].pc # "idle" /\ c'[k] # c[k]

\* C30: a QueueTask call routed to the global queue (no preferLocal, or no
\* processor) changes no ring, no run-next slot and no tick, and only
\* appends its task at the global tail.  A call routed to the local queue of
\* P changes no ring and no run-next slot of another processor and no tick,
\* and changes the global queue only when P's ring is full, by appending.
C30_AdmissionFrame ==
  [][\A k \in Callers :
       QtStep(k) =>
         /\ schedtick' = schedtick
         /\ IF c[k].local /\ c[k].pp # NoP
            THEN /\ \A p \in Procs \ {c[k].pp} :
                      runq'[p] = runq[p] /\ runnext'[p] = runnext[p]
                 /\ globq' # globq =>
                      /\ Len(runq[c[k].pp]) = RunqLen
                      /\ Len(globq') > Len(globq)
                      /\ SubSeq(globq', 1, Len(globq)) = globq
            ELSE /\ runq' = runq /\ runnext' = runnext
                 /\ globq' = Append(globq, c[k].gp)
                 /\ c'[k].pc = "idle"]_vars

\* One call, routed to the global queue, has ended: its task is at the
\* global tail behind the task that was there, and processor 1's full ring
\* and run-next slot are as they were.
C30_Witness ==
  /\ ncalls = 1
  /\ \A k \in Callers : c[k].pc = "idle"
  /\ Len(globq) = 2 /\ globq[2] = RunqLen + 3
  /\ runq[1] = Range(0, RunqLen) /\ runnext[1] = RunqLen + 1

====
